---- MODULE Spec2Model ----
(***************************************************************************)
(* Model of parsers/parse-clang-diagnostic-groups.py: the construction of  *)
(* the ClangDiagnostics catalog from the llvm-tblgen JSON dump (three      *)
(* passes), the derived properties of groups and switches, and the report  *)
(* that main() prints.                                                     *)
(*                                                                         *)
(* Group records are named 1, 2, ... in the order of                       *)
(* json_data["!instanceof"]["DiagGroup"]; diagnostic records likewise, and *)
(* the Text of diagnostic i is i.  Python's booleans returned by the       *)
(* recursive methods are the strings "True" and "False", so that the third *)
(* outcome of a call, the RecursionError the interpreter raises when the   *)
(* recursion does not end, is a value too.                                 *)
(***************************************************************************)
EXTENDS Integers, Sequences, FiniteSets, TLC

\* Bound: the number of DiagGroup records of the input.
MaxGroups == 2

\* Bound: the number of Diagnostic records of the input.
MaxDiags == 2

\* The interpreter's recursion limit (1000 calls by default), scaled to the
\* catalogs checked: a recursion over an acyclic graph of at most MaxGroups
\* groups is at most MaxGroups calls deep, so only a recursion that does not
\* end reaches the limit.
RecursionLimit == MaxGroups + 2

\* The -W names the GroupName fields are drawn from.
SwitchNames == {"bar", "foo"}

\* JSON null, as the Group of a Diagnostic record.
Null == 0

\* A key the JSON object does not have.
Absent == "absent"

True == "True"
False == "False"
RecursionError == "RecursionError"
KeyError == "KeyError"

VARIABLES
    groups,     \* ClangDiagnostics.groups: group name -> ClangDiagGroup
    switches,   \* ClangDiagnostics.switches: switch name -> its groups' names
    phase,      \* where the program is: "groups", "diagnostics", "built", "done"
    ndiag,      \* number of Diagnostic records read so far
    status,     \* "ok", or the exception that ended the program
    culprit,    \* the record whose processing raised the exception
    args,       \* the parsed command line
    out         \* the lines printed so far

vars == <<groups, switches, phase, ndiag, status, culprit, args, out>>

NoRecord == [kind |-> "none"]

NoArgs == [top_level |-> FALSE, unique |-> FALSE, text |-> FALSE]

\* The command lines: the three toggles, in any combination.
Args == [top_level : BOOLEAN, unique : BOOLEAN, text : BOOLEAN]

----------------------------------------------------------------------------
(* Helpers on sequences *)

Range(seq) == {seq[i] : i \in 1..Len(seq)}

RECURSIVE Concat(_)
\* The concatenation of a sequence of sequences.
Concat(seqs) ==
    IF seqs = <<>> THEN <<>> ELSE Head(seqs) \o Concat(Tail(seqs))

\* F(x), with x evaluated once.
With(x, F(_)) == CHOOSE v \in {F(y) : y \in {x}} : TRUE

RECURSIVE AscendingSeq(_)
\* The elements of a finite set of integers, in ascending order.
AscendingSeq(S) ==
    IF S = {} THEN <<>>
    ELSE LET m == CHOOSE x \in S : \A y \in S : x <= y
         IN <<m>> \o AscendingSeq(S \ {m})

----------------------------------------------------------------------------
(* The input records *)

\* The DiagGroup records: GroupName, and SubGroups as the list of the
\* names it refers to (in ascending order of name), among the names 1..limit.
DiagGroupRecords(limit) ==
    [GroupName : SwitchNames,
     SubGroups : {AscendingSeq(S) : S \in SUBSET (1..limit)}]

\* The Diagnostic records: Group is null or {def: name}, where the name
\* limit + 1 is never a group; each severity field is there or not.
DiagnosticRecords(limit) ==
    [Group : {Null} \cup (1..(limit + 1)),
     DefaultSeverity : {Absent, "SEV_Ignored", "SEV_Warning"},
     DefaultMapping : {Absent, "MAP_IGNORE", "MAP_WARNING"}]

----------------------------------------------------------------------------
(* ClangDiagnostic *)

\* ClangDiagnostic.__init__ raises KeyError: obj["DefaultMapping"] of a
\* record that has neither severity field.
ClangDiagnosticRaises(obj) ==
    obj.DefaultSeverity = Absent /\ obj.DefaultMapping = Absent

\* ClangDiagnostic.__init__, for a record it does not raise on.
ClangDiagnostic(name, obj) ==
    [name |-> name,
     text |-> name,
     group_name |-> obj.Group,
     enabled_by_default |->
        IF obj.DefaultSeverity # Absent
        THEN obj.DefaultSeverity # "SEV_Ignored"
        ELSE obj.DefaultMapping # "MAP_IGNORE"]

----------------------------------------------------------------------------
(* ClangDiagGroup *)

\* ClangDiagGroup.__init__
ClangDiagGroup(name, obj) ==
    [name |-> name,
     switch_name |-> obj.GroupName,
     child_names |-> obj.SubGroups,
     has_parent |-> FALSE,
     diagnostics |-> <<>>,
     children |-> <<>>]

GroupNames == DOMAIN groups

\* ClangDiagGroup.get_messages
GroupGetMessages(g, enabled_by_default) ==
    LET d == groups[g].diagnostics
    IN IF enabled_by_default
       THEN {d[i].text : i \in {j \in 1..Len(d) : d[j].enabled_by_default}}
       ELSE {d[i].text : i \in 1..Len(d)}

RECURSIVE GroupIsDummy(_, _), GroupIsDummyLoop(_, _, _)
\* ClangDiagGroup.is_dummy, as the call at recursion depth `depth`.
GroupIsDummy(g, depth) ==
    IF depth > RecursionLimit THEN RecursionError
    ELSE IF groups[g].diagnostics # <<>> THEN False
    ELSE GroupIsDummyLoop(groups[g].children, 1, depth)

\* The loop over self.children of is_dummy, from child i on.
GroupIsDummyLoop(children, i, depth) ==
    IF i > Len(children) THEN True
    ELSE With(GroupIsDummy(children[i], depth + 1),
              LAMBDA r : IF r = True
                         THEN GroupIsDummyLoop(children, i + 1, depth)
                         ELSE r)

RECURSIVE GroupHasDiagnostic(_, _, _), GroupHasDiagnosticLoop(_, _, _, _)
\* ClangDiagGroup.has_enabled_diagnostic (enabled = TRUE) and
\* has_disabled_diagnostic (enabled = FALSE), which differ in the test of
\* diagnostic.enabled_by_default alone.
GroupHasDiagnostic(g, enabled, depth) ==
    IF depth > RecursionLimit THEN RecursionError
    ELSE IF \E i \in 1..Len(groups[g].diagnostics) :
               groups[g].diagnostics[i].enabled_by_default = enabled
    THEN True
    ELSE GroupHasDiagnosticLoop(groups[g].children, 1, enabled, depth)

\* The loop over self.children of has_enabled/has_disabled_diagnostic.
GroupHasDiagnosticLoop(children, i, enabled, depth) ==
    IF i > Len(children) THEN False
    ELSE With(GroupHasDiagnostic(children[i], enabled, depth + 1),
              LAMBDA r : IF r = False
                         THEN GroupHasDiagnosticLoop(children, i + 1, enabled,
                                                     depth)
                         ELSE r)

has_enabled_diagnostic(g) == GroupHasDiagnostic(g, TRUE, 1)

has_disabled_diagnostic(g) == GroupHasDiagnostic(g, FALSE, 1)

----------------------------------------------------------------------------
(* ClangWarningSwitch *)

SwitchSet == DOMAIN switches

\* ClangWarningSwitch.__lt__ and __eq__ compare self.name.lower(): the
\* position of the lower-cased name in the order of the strings.
LowerNameOrder(name) ==
    CASE name = "bar" -> 1
      [] name = "foo" -> 2

RECURSIVE SwitchIsDummyLoop(_, _)
\* The loop over self.groups of ClangWarningSwitch.is_dummy.
SwitchIsDummyLoop(gs, i) ==
    IF i > Len(gs) THEN True
    ELSE With(GroupIsDummy(gs[i], 1),
              LAMBDA r : IF r = True THEN SwitchIsDummyLoop(gs, i + 1) ELSE r)

\* ClangWarningSwitch.is_dummy
is_dummy(s) == SwitchIsDummyLoop(switches[s], 1)

RECURSIVE HasDisabledLoop(_, _)
\* The loop over self.groups of is_enabled_by_default: whether a group has
\* a disabled diagnostic, to the first that has one.
HasDisabledLoop(gs, i) ==
    IF i > Len(gs) THEN False
    ELSE With(has_disabled_diagnostic(gs[i]),
              LAMBDA r : IF r = False THEN HasDisabledLoop(gs, i + 1) ELSE r)

\* not x, of a call that may have raised.
Not(x) == IF x = True THEN False ELSE IF x = False THEN True ELSE x

\* is_enabled_by_default without its last line's test of is_dummy.
is_enabled_by_default_ignoring_dummy(s) ==
    Not(HasDisabledLoop(switches[s], 1))

\* ClangWarningSwitch.is_enabled_by_default
is_enabled_by_default(s) ==
    With(HasDisabledLoop(switches[s], 1),
         LAMBDA d : IF d = False THEN Not(is_dummy(s)) ELSE Not(d))

RECURSIVE PartiallyLoop(_, _, _, _)
\* The loop over self.groups of partially_enabled_by_default: both methods
\* are called on every group, has_disabled_diagnostic first.
PartiallyLoop(gs, i, has_enabled, has_disabled) ==
    IF i > Len(gs)
    THEN (IF has_enabled /\ has_disabled THEN True ELSE False)
    ELSE With(has_disabled_diagnostic(gs[i]),
              LAMBDA d :
                IF d = RecursionError THEN RecursionError
                ELSE With(has_enabled_diagnostic(gs[i]),
                          LAMBDA e :
                            IF e = RecursionError THEN RecursionError
                            ELSE PartiallyLoop(gs, i + 1,
                                               has_enabled \/ (e = True),
                                               has_disabled \/ (d = True))))

\* ClangWarningSwitch.partially_enabled_by_default
partially_enabled_by_default(s) == PartiallyLoop(switches[s], 1, FALSE, FALSE)

\* ClangWarningSwitch.is_top_level
is_top_level(s) ==
    \A i \in 1..Len(switches[s]) : ~groups[switches[s][i]].has_parent

\* ClangWarningSwitch.get_messages: the set of the texts (duplicates removed).
get_messages(s, enabled_by_default) ==
    UNION {GroupGetMessages(switches[s][i], enabled_by_default) :
           i \in 1..Len(switches[s])}

\* The list child_switches of get_child_switches before the filter: the
\* switch of every child of every group of the switch, in order.
ChildSwitchList(s) ==
    LET child_groups == Concat([i \in 1..Len(switches[s]) |->
                                   groups[switches[s][i]].children])
    IN [i \in 1..Len(child_groups) |-> groups[child_groups[i]].switch_name]

\* What a call returns: its value, or that it raised RecursionError (after
\* printing the lines of value, for a call that prints).
Returned(value) == [raised |-> FALSE, value |-> value]

Raised(value) == [raised |-> TRUE, value |-> value]

\* The test of get_child_switches' filter and of main's all_defaults:
\* switch.is_enabled_by_default() or switch.partially_enabled_by_default().
EnabledOrPartially(s) ==
    With(is_enabled_by_default(s),
         LAMBDA e : IF e = False THEN partially_enabled_by_default(s) ELSE e)

RECURSIVE FilterEnabled(_)
\* The filter of get_child_switches: keeps the switches that are enabled or
\* partially enabled by default, in order; raises when a test does.
FilterEnabled(list) ==
    IF list = <<>> THEN Returned(<<>>)
    ELSE With(EnabledOrPartially(Head(list)),
              LAMBDA t :
                IF t = RecursionError THEN Raised(<<>>)
                ELSE With(FilterEnabled(Tail(list)),
                          LAMBDA rest :
                            IF rest.raised \/ t = False THEN rest
                            ELSE Returned(<<Head(list)>> \o rest.value)))

\* ClangWarningSwitch.get_child_switches
get_child_switches(s, enabled_by_default) ==
    IF enabled_by_default
    THEN FilterEnabled(ChildSwitchList(s))
    ELSE Returned(ChildSwitchList(s))

----------------------------------------------------------------------------
(* ClangDiagnostics.__init__ *)

Init ==
    /\ groups = <<>>
    /\ switches = <<>>
    /\ phase = "groups"
    /\ ndiag = 0
    /\ status = "ok"
    /\ culprit = NoRecord
    /\ args = NoArgs
    /\ out = <<>>

\* ClangDiagnostics.get_switch followed by .groups.append(group): the switch
\* is created the first time its name is seen.
SwitchesWithGroup(name, g) ==
    IF name \in DOMAIN switches
    THEN [switches EXCEPT ![name] = Append(@, g)]
    ELSE [n \in (DOMAIN switches) \cup {name} |->
             IF n = name THEN <<g>> ELSE switches[n]]

\* First pass, one DiagGroup record: the group and its switch are created.
InstantiateGroup(limit) ==
    /\ phase = "groups"
    /\ status = "ok"
    /\ Len(groups) < limit
    /\ \E obj \in DiagGroupRecords(limit) :
         LET name == Len(groups) + 1
         IN /\ groups' = Append(groups, ClangDiagGroup(name, obj))
            /\ switches' = SwitchesWithGroup(obj.GroupName, name)
    /\ UNCHANGED <<phase, ndiag, status, culprit, args, out>>

\* The groups after the second pass: children resolved, has_parent set on
\* every group that is some group's child.
ResolvedGroups ==
    [g \in DOMAIN groups |->
        [groups[g] EXCEPT
            !.children = groups[g].child_names,
            !.has_parent = \E p \in DOMAIN groups :
                               g \in Range(groups[p].child_names)]]

\* Second pass, at the end of the DiagGroup records: self.groups[name] of a
\* name that is no group raises KeyError.
ResolveChildren ==
    /\ phase = "groups"
    /\ status = "ok"
    /\ LET unresolved == {g \in DOMAIN groups :
                            ~(Range(groups[g].child_names) \subseteq DOMAIN groups)}
       IN IF unresolved = {}
          THEN /\ groups' = ResolvedGroups
               /\ phase' = "diagnostics"
               /\ UNCHANGED <<status, culprit>>
          ELSE /\ status' = KeyError
               /\ culprit' = [kind |-> "DiagGroup",
                              name |-> CHOOSE g \in unresolved :
                                          \A h \in unresolved : g <= h]
               /\ UNCHANGED <<groups, phase>>
    /\ UNCHANGED <<switches, ndiag, args, out>>

\* Third pass, one Diagnostic record: the diagnostic is created, and
\* appended to its group when its group name is a key of self.groups.
InstantiateDiagnostic(records) ==
    /\ phase = "diagnostics"
    /\ status = "ok"
    /\ ndiag < MaxDiags
    /\ \E obj \in records :
         LET name == ndiag + 1
         IN IF ClangDiagnosticRaises(obj)
            THEN /\ status' = KeyError
                 /\ culprit' = [kind |-> "Diagnostic", name |-> name,
                                Group |-> obj.Group]
                 /\ UNCHANGED <<groups, ndiag>>
            ELSE LET diag == ClangDiagnostic(name, obj)
                 IN /\ ndiag' = name
                    /\ groups' =
                         IF diag.group_name # Null
                            /\ diag.group_name \in DOMAIN groups
                         THEN [groups EXCEPT ![diag.group_name].diagnostics =
                                                 Append(@, diag)]
                         ELSE groups
                    /\ UNCHANGED <<status, culprit>>
    /\ UNCHANGED <<switches, phase, args, out>>

\* The end of the Diagnostic records: the constructor returns.
FinishConstruction ==
    /\ phase = "diagnostics"
    /\ status = "ok"
    /\ phase' = "built"
    /\ UNCHANGED <<groups, switches, ndiag, status, culprit, args, out>>

Next ==
    \/ InstantiateGroup(MaxGroups)
    \/ ResolveChildren
    \/ InstantiateDiagnostic(DiagnosticRecords(MaxGroups))
    \/ FinishConstruction

\* The construction of the catalog, on every input of at most MaxGroups
\* groups and MaxDiags diagnostics.
Spec == Init /\ [][Next]_vars

----------------------------------------------------------------------------
(* The report *)

RECURSIVE SortedSwitches(_)
\* sorted(list of switches): by lower-cased name, equal names kept in order.
SortedSwitches(list) ==
    IF list = <<>> THEN <<>>
    ELSE LET m == CHOOSE i \in 1..Len(list) :
                    /\ \A j \in 1..Len(list) :
                         LowerNameOrder(list[i]) <= LowerNameOrder(list[j])
                    /\ \A j \in 1..(i - 1) :
                         LowerNameOrder(list[j]) # LowerNameOrder(list[i])
             rest == [k \in 1..(Len(list) - 1) |->
                         IF k < m THEN list[k] ELSE list[k + 1]]
         IN <<list[m]>> \o SortedSwitches(rest)

RECURSIVE SortedSwitchSet(_)
\* sorted(set of switches)
SortedSwitchSet(S) ==
    IF S = {} THEN <<>>
    ELSE LET m == CHOOSE x \in S :
                    \A y \in S : LowerNameOrder(x) <= LowerNameOrder(y)
         IN <<m>> \o SortedSwitchSet(S \ {m})

\* create_comment_text: the comment, or RecursionError when a test raises it.
create_comment_text(s, a, enabled_by_default) ==
    With(is_dummy(s),
         LAMBDA d :
           IF d = RecursionError THEN RecursionError
           ELSE IF d = True THEN " # DUMMY switch"
           ELSE IF a.unique
           THEN With(is_enabled_by_default(s),
                     LAMBDA e :
                       IF e = RecursionError THEN RecursionError
                       ELSE IF e = True THEN " # Enabled by default."
                       ELSE With(partially_enabled_by_default(s),
                                 LAMBDA p :
                                   IF p = True
                                   THEN " # Partially enabled by default."
                                   ELSE IF p = False THEN "" ELSE p))
           ELSE IF enabled_by_default
           THEN With(partially_enabled_by_default(s),
                     LAMBDA p : IF p = True THEN " (partial)"
                                ELSE IF p = False THEN "" ELSE p)
           ELSE "")

\* The section a line belongs to: print_switch is called with
\* enabled_by_default=True under "# enabled by default:" only.
Section(enabled_by_default) == IF enabled_by_default THEN "default" ELSE "main"

\* A printed line "# <indent>-W<name><comment>", or "-W<name><comment>" at
\* level 0, where main prints it.
SwitchLine(s, level, comment, enabled_by_default) ==
    [kind |-> "switch", section |-> Section(enabled_by_default),
     level |-> level, name |-> s, text |-> 0, comment |-> comment]

\* The lines of the messages of a switch: sorted(switch.get_messages(...)).
MessageLines(s, level, enabled_by_default) ==
    LET texts == AscendingSeq(get_messages(s, enabled_by_default))
    IN [i \in 1..Len(texts) |->
          [kind |-> "message", section |-> Section(enabled_by_default),
           level |-> level, name |-> s, text |-> texts[i], comment |-> ""]]

HeaderLine ==
    [kind |-> "header", section |-> "default", level |-> 0, name |-> "",
     text |-> 0, comment |-> ""]

\* A call that prints `lines` and then makes the call `rest`.
After(lines, rest) == [raised |-> rest.raised, value |-> lines \o rest.value]

\* The lines print_switch and main print for the switch itself.
OwnLines(s, level, a, comment, enabled_by_default) ==
    <<SwitchLine(s, level, comment, enabled_by_default)>>
    \o (IF a.text THEN MessageLines(s, level, enabled_by_default) ELSE <<>>)

RECURSIVE print_switch(_, _, _, _, _), print_each(_, _, _, _, _, _)
\* print_switch, as the call at recursion depth `depth`: the lines it
\* prints, and whether it raised RecursionError after them.  Its last line
\* is print_references(switch, level + 1, ...).
print_switch(s, level, a, enabled_by_default, depth) ==
    IF depth > RecursionLimit THEN Raised(<<>>)
    ELSE With(create_comment_text(s, a, enabled_by_default),
              LAMBDA comment :
                IF comment = RecursionError THEN Raised(<<>>)
                ELSE With(get_child_switches(s, enabled_by_default),
                          LAMBDA kids :
                            With(IF kids.raised THEN kids
                                 ELSE print_each(SortedSwitches(kids.value), 1,
                                                 level + 1, a,
                                                 enabled_by_default, depth + 1),
                                 LAMBDA r :
                                   After(OwnLines(s, level, a, comment,
                                                  enabled_by_default), r))))

\* The loop of print_references (and of main over toplevel_defaults): a
\* print_switch for each switch of the list from the i-th on, to the first
\* that raises.
print_each(list, i, level, a, enabled_by_default, depth) ==
    IF i > Len(list) THEN Returned(<<>>)
    ELSE With(print_switch(list[i], level, a, enabled_by_default, depth),
              LAMBDA r :
                IF r.raised THEN r
                ELSE With(print_each(list, i + 1, level, a, enabled_by_default,
                                     depth),
                          LAMBDA rest : After(r.value, rest)))

\* print_references
print_references(s, level, a, enabled_by_default) ==
    With(get_child_switches(s, enabled_by_default),
         LAMBDA kids :
           IF kids.raised THEN kids
           ELSE print_each(SortedSwitches(kids.value), 1, level, a,
                           enabled_by_default, 1))

\* main's all_defaults
all_defaults == {s \in SwitchSet : EnabledOrPartially(s) = True}

\* main's children: the child switches of the switches of all_defaults.
children_of_defaults ==
    UNION {Range(get_child_switches(s, TRUE).value) : s \in all_defaults}

\* all_defaults without the switches of children_of_defaults.
defaults_minus_children == all_defaults \ children_of_defaults

\* main's toplevel_defaults
toplevel_defaults == defaults_minus_children

\* main, top-level mode: the section "# enabled by default:".
PrintDefaults(a) ==
    IF \E s \in SwitchSet : EnabledOrPartially(s) = RecursionError
    THEN Raised(<<>>)
    ELSE IF \E s \in all_defaults : get_child_switches(s, TRUE).raised
    THEN Raised(<<>>)
    ELSE With(print_each(SortedSwitchSet(toplevel_defaults), 1, 1, a, TRUE, 1),
              LAMBDA r : After(<<HeaderLine>>, r))

\* The test of main's loop without "or switch.is_enabled_by_default()".
SkipRoot_not_top_level_only(s, a) ==
    IF ~a.top_level THEN False
    ELSE IF ~is_top_level(s) THEN True
    ELSE False

\* The test of main's loop: args.top_level and (not switch.is_top_level()
\* or switch.is_enabled_by_default()).
SkipRoot(s, a) ==
    IF ~a.top_level THEN False
    ELSE IF ~is_top_level(s) THEN True
    ELSE is_enabled_by_default(s)

\* One iteration of main's loop over sorted(diagnostics.switches.values()).
PrintRoot(s, a) ==
    With(SkipRoot(s, a),
         LAMBDA skip :
           IF skip = RecursionError THEN Raised(<<>>)
           ELSE IF skip = True THEN Returned(<<>>)
           ELSE With(create_comment_text(s, a, FALSE),
                     LAMBDA comment :
                       IF comment = RecursionError THEN Raised(<<>>)
                       ELSE With(IF a.unique THEN Returned(<<>>)
                                 ELSE print_references(s, 1, a, FALSE),
                                 LAMBDA r :
                                   After(OwnLines(s, 0, a, comment, FALSE), r))))

RECURSIVE PrintRoots(_, _, _)
\* main's loop over the sorted switches, from the i-th on.
PrintRoots(list, i, a) ==
    IF i > Len(list) THEN Returned(<<>>)
    ELSE With(PrintRoot(list[i], a),
              LAMBDA r :
                IF r.raised THEN r
                ELSE With(PrintRoots(list, i + 1, a),
                          LAMBDA rest : After(r.value, rest)))

\* main, after the catalog is built: what it prints, and whether it raised.
main(a) ==
    With(IF a.top_level THEN PrintDefaults(a) ELSE Returned(<<>>),
         LAMBDA d :
           IF d.raised THEN d
           ELSE With(PrintRoots(SortedSwitchSet(SwitchSet), 1, a),
                     LAMBDA r : After(d.value, r)))

\* The program's run on a built catalog, with the command line `a`.
Main(arguments) ==
    /\ phase = "built"
    /\ status = "ok"
    /\ \E a \in arguments :
         \E r \in {main(a)} :
            /\ args' = a
            /\ out' = r.value
            /\ status' = IF r.raised THEN RecursionError ELSE "ok"
    /\ phase' = "done"
    /\ UNCHANGED <<groups, switches, ndiag, culprit>>

NextReport ==
    \/ InstantiateGroup(MaxGroups)
    \/ ResolveChildren
    \/ InstantiateDiagnostic(DiagnosticRecords(MaxGroups))
    \/ FinishConstruction
    \/ Main(Args)

\* The whole program: the construction of the catalog and the report, on
\* every input of at most MaxGroups groups and MaxDiags diagnostics, with
\* every command line.
SpecReport == Init /\ [][NextReport]_vars

----------------------------------------------------------------------------
(* What the claims are stated with *)

\* The constructor has returned.
Constructed == phase \in {"built", "done"}

RECURSIVE ReachFrom(_)
\* The groups reachable from the groups of S through children, S included:
\* the least set that holds S and the children of its members.
ReachFrom(S) ==
    LET T == S \cup UNION {Range(groups[g].children) : g \in S}
    IN IF T = S THEN S ELSE ReachFrom(T)

\* The diagnostics of the closure of a switch: those of its groups and of
\* every group reachable from them.
ClosureDiagnostics(s) ==
    UNION {Range(groups[g].diagnostics) : g \in ReachFrom(Range(switches[s]))}

\* No group is its own descendant.
GroupGraphAcyclic ==
    \A g \in DOMAIN groups : g \notin ReachFrom(Range(groups[g].children))

\* The diagnostics read so far that are in no group.
Unattached ==
    {i \in 1..ndiag :
        \A g \in DOMAIN groups :
            \A k \in 1..Len(groups[g].diagnostics) :
                groups[g].diagnostics[k].name # i}

\* The positions of the switch lines of the output.
SwitchLinesOf(lines) == {i \in 1..Len(lines) : lines[i].kind = "switch"}

\* A line main itself prints for a switch: "-W<name>" in the main section,
\* or a line of toplevel_defaults, which main prints at level 1.
IsRootLine(l) ==
    /\ l.kind = "switch"
    /\ \/ l.section = "main" /\ l.level = 0
       \/ l.section = "default" /\ l.level = 1

\* The switches of the root lines of a section.
RootsOf(section) ==
    {out[i].name : i \in {j \in SwitchLinesOf(out) :
                            IsRootLine(out[j]) /\ out[j].section = section}}

\* Line j is a switch line directly beneath the switch line i: one level
\* deeper, with only deeper switch lines between them.
DirectlyBeneath(i, j) ==
    /\ i \in SwitchLinesOf(out)
    /\ j \in SwitchLinesOf(out)
    /\ i < j
    /\ out[j].level = out[i].level + 1
    /\ \A k \in (i + 1)..(j - 1) :
          /\ out[k].kind # "header"
          /\ out[k].kind = "switch" => out[k].level > out[i].level

\* The switches printed on some line.
PrintedSwitches == {out[i].name : i \in SwitchLinesOf(out)}

----------------------------------------------------------------------------
(* The claims *)

\* C1: on every catalog, one with a cycle in its group graph included, the
\* recursive derived properties of a group (is_dummy,
\* has_enabled_diagnostic, has_disabled_diagnostic) and the descent of the
\* report through get_child_switches terminate: no call raises
\* RecursionError.
C1_RecursionTerminates ==
    /\ status # RecursionError
    /\ Constructed =>
         \A g \in DOMAIN groups :
            /\ GroupIsDummy(g, 1) # RecursionError
            /\ has_enabled_diagnostic(g) # RecursionError
            /\ has_disabled_diagnostic(g) # RecursionError

\* C2: for every switch of every constructed catalog, is_dummy() is true
\* if and only if no group reachable from the switch's groups owns a
\* diagnostic.
C2_DummyIffNoDiagnostic ==
    Constructed =>
       \A s \in SwitchSet :
          (is_dummy(s) = True) <=> (ClosureDiagnostics(s) = {})

\* C3: for every switch of every constructed catalog, at most one of
\* is_dummy(), is_enabled_by_default() and partially_enabled_by_default()
\* is true; dummy and enabled-by-default exclude each other, and
\* partially-enabled implies that the closure of the switch holds an
\* enabled and a disabled diagnostic and that is_enabled_by_default() is
\* false.
C3_AtMostOneSwitchState ==
    Constructed =>
       \A s \in SwitchSet :
          \A dummy \in {is_dummy(s)} :
          \A enabled \in {is_enabled_by_default(s)} :
          \A partially \in {partially_enabled_by_default(s)} :
             /\ Cardinality({x \in {<<1, dummy>>, <<2, enabled>>,
                                    <<3, partially>>} : x[2] = True}) <= 1
             /\ ~(dummy = True /\ enabled = True)
             /\ partially = True =>
                   /\ \E d \in ClosureDiagnostics(s) : d.enabled_by_default
                   /\ \E d \in ClosureDiagnostics(s) : ~d.enabled_by_default
                   /\ enabled = False

\* C3's case: a constructed catalog with a switch that is partially enabled
\* by default and a switch that is enabled by default and not a dummy.
C3_Witness ==
    /\ Constructed
    /\ \E s \in SwitchSet : \E t \in SwitchSet :
          /\ partially_enabled_by_default(s) = True
          /\ is_enabled_by_default(t) = True
          /\ is_dummy(t) = False

\* C4: get_child_switches(enabled_only) returns the switches of the direct
\* child groups of the switch's groups, each at most once; with
\* enabled_only true, only those enabled or partially enabled by default.
\* So the report prints a child switch at most once directly beneath a
\* parent line.
C4_ChildSwitchesDeduplicated ==
    Constructed =>
       /\ \A s \in SwitchSet : \A enabled_only \in BOOLEAN :
             LET r == get_child_switches(s, enabled_only)
             IN ~r.raised =>
                  /\ \A i, j \in 1..Len(r.value) :
                        r.value[i] = r.value[j] => i = j
                  /\ Range(r.value) \subseteq Range(ChildSwitchList(s))
                  /\ enabled_only =>
                        \A c \in Range(r.value) : EnabledOrPartially(c) = True
       /\ \A i, j, k \in SwitchLinesOf(out) :
             /\ DirectlyBeneath(i, j)
             /\ DirectlyBeneath(i, k)
             /\ out[j].name = out[k].name
             => j = k

\* C5: a Diagnostic record with neither DefaultSeverity nor DefaultMapping
\* does not make the construction fail (the diagnostic is enabled by
\* default): no Diagnostic record raises KeyError.
C5_MissingSeverityIsEnabled ==
    ~(status = KeyError /\ culprit.kind = "Diagnostic")

\* C6: a Diagnostic record whose group is null or no key of the groups is
\* dropped without an error: the construction goes on, the diagnostic is in
\* no group, and its text is in no get_messages result.
C6_UnresolvedGroupDropped ==
    /\ ~(/\ status = KeyError
         /\ culprit.kind = "Diagnostic"
         /\ (culprit.Group = Null \/ culprit.Group \notin DOMAIN groups))
    /\ \A i \in Unattached :
          \A s \in SwitchSet : \A b \in BOOLEAN : i \notin get_messages(s, b)

\* C7: with the unique toggle on, whatever the top-level and text toggles,
\* every switch line of the output is a root line: no child switch is
\* printed beneath another, in the section "enabled by default" either.
C7_UniquePrintsNoChildren ==
    (phase = "done" /\ args.unique) =>
       \A i \in SwitchLinesOf(out) : IsRootLine(out[i])

\* C8: in top-level mode, the roots of the section "enabled by default" are
\* exactly the switches enabled or partially enabled by default that are no
\* child (get_child_switches(True)) of another such switch; a switch that is
\* a child of itself only is a root.  Stated of the runs that end without an
\* exception.
C8_DefaultRootsNotChildOfAnother ==
    (phase = "done" /\ status = "ok" /\ args.top_level) =>
       RootsOf("default") =
          {s \in all_defaults :
              ~\E t \in all_defaults \ {s} :
                  s \in Range(get_child_switches(t, TRUE).value)}

\* The catalog of C9's scenario: G1 (switch foo, one enabled diagnostic, no
\* subgroups) and G2 (switch bar, one disabled diagnostic, subgroup G1).
Scenario ==
    /\ Len(groups) = 2
    /\ groups[1].switch_name = "foo" /\ groups[1].child_names = <<>>
    /\ groups[2].switch_name = "bar" /\ groups[2].child_names = <<1>>
    /\ Len(groups[1].diagnostics) = 1
    /\ groups[1].diagnostics[1].enabled_by_default
    /\ Len(groups[2].diagnostics) = 1
    /\ ~groups[2].diagnostics[1].enabled_by_default

\* No switch is its own child: no group of a switch is a child of a group
\* of the same switch.
NoSwitchOwnChild == \A s \in SwitchSet : s \notin Range(ChildSwitchList(s))

\* The switches main's loop prints as roots in top-level mode.
TopLevelNotEnabled ==
    {s \in SwitchSet : is_top_level(s) /\ is_enabled_by_default(s) = False}

\* In the scenario's report, -Wbar is a root of the main section with -Wfoo
\* one level beneath it, -Wfoo is no root, and bar is partially enabled.
ScenarioReport ==
    /\ RootsOf("main") = {"bar"}
    /\ \E i, j \in SwitchLinesOf(out) :
          /\ out[i].section = "main" /\ out[i].name = "bar"
          /\ out[j].name = "foo"
          /\ DirectlyBeneath(i, j)
    /\ partially_enabled_by_default("bar") = True

C10_NoSwitchLost ==
    (phase = "done" /\ args.top_level /\ ~args.unique /\ GroupGraphAcyclic) =>
       \A s \in SwitchSet : is_dummy(s) = False => s \in PrintedSwitches

====
